---- MODULE Spec2Model ----
(***************************************************************************)
(* A model of tides-ft (src/src/main.rs): the program reads a CSV file of  *)
(* water levels, turns it into a DataSet of (seconds since the first       *)
(* record, verified level) points, evaluates the Fourier integral of the   *)
(* piecewise-linear interpolant at start_freq, start_freq + step, ...      *)
(* while the frequency is <= end_freq, and prints one line per point.      *)
(*                                                                         *)
(* Numbers.                                                                *)
(*  - Frequencies are f64 in the program.  Here they are binary floating   *)
(*    point numbers with a MantBits-bit significand, written as integer    *)
(*    multiples of the smallest spacing in use (the default step is one    *)
(*    such unit); every addition and multiplication rounds to nearest,     *)
(*    ties to even, as IEEE 754 does.  The exponent range is not modelled. *)
(*  - Times are whole seconds (i64 converted to f64, exact) and levels are *)
(*    small integers: both are kept exact.                                 *)
(*  - The value of the Fourier integral involves pi, cos and sin.  It is   *)
(*    tracked by its IEEE class only: "zero", "nonzero" (finite, known not *)
(*    to be 0), "finite" (finite, maybe 0) and "nonfinite" (NaN or an      *)
(*    infinity).                                                           *)
(***************************************************************************)
EXTENDS Integers, Sequences, FiniteSets, TLC

\* ------------------------------------------------------------------ bounds
\* Significand width of the model's floating point numbers (53 in f64).
MantBits == 11
\* Most records the CSV reader hands out before the end of the file.
MaxRecords == 3
\* Most points the sweep collects in the model (the Vec is unbounded).
MaxPoints == 5
\* Most windows of the parallel sum in SumSpec.
MaxWindows == 4

\* -------------------------------------------------------- program constants
\* unwrap_or(0.0)
DefaultStartFreq == 0
\* 30000 in 5.0 / 86400.0 / 30000.0
DefaultPointCount == 30000
\* 5.0 / 86400.0 / 30000.0, the unit of frequency of the model
DefaultStep == 1
\* 5.0 / 86400.0 = 30000 default steps
DefaultEndFreq == DefaultPointCount * DefaultStep
\* 86400.0 in point.freq * 86400.0
SecondsPerDay == 86400

\* ------------------------------------------------------ floating point (f64)
Abs(x) == IF x < 0 THEN -x ELSE x

Sign(x) == IF x < 0 THEN -1 ELSE 1

RECURSIVE Pow2(_)
Pow2(n) == IF n = 0 THEN 1 ELSE 2 * Pow2(n - 1)

\* The spacing of the floating point numbers around magnitude av: the least
\* power of two u with av < 2^MantBits * u.
RECURSIVE UlpOf(_, _)
UlpOf(av, u) == IF av < Pow2(MantBits) * u THEN u ELSE UlpOf(av, 2 * u)

\* v is a floating point number: its significand fits MantBits bits.
Representable(v) == Abs(v) % UlpOf(Abs(v), 1) = 0

\* Round to nearest, ties to even significand.
RoundF(v) ==
    LET av == Abs(v)
        u  == UlpOf(av, 1)
        q  == av \div u
        r  == av % u
        up == (2 * r > u) \/ (2 * r = u /\ q % 2 = 1)
    IN  Sign(v) * (IF up THEN q + 1 ELSE q) * u

\* f64 + f64
FAdd(x, y) == RoundF(x + y)

\* f64 * f64
FMul(x, y) == RoundF(x * y)

\* ------------------------------------------------------------- WaterState
\* A CSV row.  wellformed: the row deserializes into a WaterState (four
\* columns, the last two numbers).  date is the text "y/m/d" and time the
\* text "h:mi" of the row, held as the numbers written in it.
Row(wf, date, time, predicted, verified) ==
    [wellformed |-> wf, date |-> date, time |-> time,
     predicted |-> predicted, verified |-> verified]

IsLeap(y) == (y % 4 = 0 /\ y % 100 # 0) \/ y % 400 = 0

DaysInMonth(y, m) ==
    IF m = 2 THEN (IF IsLeap(y) THEN 29 ELSE 28)
    ELSE IF m \in {4, 6, 9, 11} THEN 30 ELSE 31

\* NaiveDateTime::parse_from_str(.., "%Y/%m/%d %H:%M") returns Ok.
ParseOk(r) ==
    /\ r.date[2] \in 1..12
    /\ r.date[3] \in 1..DaysInMonth(r.date[1], r.date[2])
    /\ r.time[1] \in 0..23
    /\ r.time[2] \in 0..59

\* Days from 1970-01-01 to the first day of year y (y >= 1970).
DaysBeforeYear(y) ==
    365 * (y - 1970) + (y - 1969) \div 4 - (y - 1901) \div 100 + (y - 1601) \div 400

RECURSIVE DaysBeforeMonth(_, _)
DaysBeforeMonth(y, m) ==
    IF m = 1 THEN 0 ELSE DaysBeforeMonth(y, m - 1) + DaysInMonth(y, m - 1)

\* WaterState::datetime, as seconds since 1970-01-01 00:00 UTC.
datetime(r) ==
    ((DaysBeforeYear(r.date[1]) + DaysBeforeMonth(r.date[1], r.date[2])
        + (r.date[3] - 1)) * 24 + r.time[1]) * 3600 + r.time[2] * 60

\* DataPoint { time, water_level }
DataPoint(t, w) == [time |-> t, water_level |-> w]

\* PointOf with the predicted level taken for the measured one.
PointOfPredicted(r, first) == DataPoint(datetime(r) - first, r.predicted)

\* The DataPoint get_data pushes for a record, given the first record's time.
PointOf(r, first) == DataPoint(datetime(r) - first, r.verified)

\* DataSet::period_length
period_length(d) == d[Len(d)].time - d[1].time

\* ------------------------------------------- IEEE classes of f64 values
\* "zero": 0.0 or -0.0; "nonzero": finite and not 0; "finite": finite, 0
\* or not; "nonfinite": NaN, inf or -inf.  An operation is defined where
\* the class of its result follows from the classes of its operands; the
\* program never reaches the other cases (TLC would stop on one).
Cls(i) == IF i = 0 THEN "zero" ELSE "nonzero"

IsFinite(x) == x # "nonfinite"

AAdd(x, y) ==
    CASE x = "nonfinite" \/ y = "nonfinite" -> "nonfinite"
      [] x = "zero" -> y
      [] y = "zero" -> x
      [] OTHER -> "finite"

ANeg(x) == x

ASub(x, y) == AAdd(x, ANeg(y))

\* inf * 0 is NaN, inf * x is an infinity: nonfinite either way.
AMul(x, y) ==
    CASE x = "nonfinite" \/ y = "nonfinite" -> "nonfinite"
      [] x = "zero" \/ y = "zero" -> "zero"
      [] x = "nonzero" /\ y = "nonzero" -> "nonzero"
      [] OTHER -> "finite"

\* x / 0 is an infinity or NaN; the divisor's class is always known.
ADiv(x, y) ==
    CASE y = "zero" -> "nonfinite"
      [] y = "nonzero" -> x

\* f64::exp of a finite number
AExp(x) == CASE IsFinite(x) -> "nonzero"

ACos(x) == CASE x = "zero" -> "nonzero" [] x = "nonfinite" -> "nonfinite" [] OTHER -> "finite"

ASin(x) == CASE x = "zero" -> "zero" [] x = "nonfinite" -> "nonfinite" [] OTHER -> "finite"

\* f64::hypot
AHypot(x, y) ==
    CASE x = "nonfinite" \/ y = "nonfinite" -> "nonfinite"
      [] x = "zero" -> y
      [] y = "zero" -> x
      [] x = "nonzero" \/ y = "nonzero" -> "nonzero"
      [] OTHER -> "finite"

\* --------------------------------------------------------- Complex<f64>
Cx(re, im) == [re |-> re, im |-> im]

\* f64 * Complex and Complex * f64
CScale(k, z) == Cx(AMul(k, z.re), AMul(k, z.im))

CAdd(z, w) == Cx(AAdd(z.re, w.re), AAdd(z.im, w.im))

CSub(z, w) == Cx(ASub(z.re, w.re), ASub(z.im, w.im))

CMul(z, w) ==
    Cx(ASub(AMul(z.re, w.re), AMul(z.im, w.im)),
       AAdd(AMul(z.re, w.im), AMul(z.im, w.re)))

norm_sqr(z) == AAdd(AMul(z.re, z.re), AMul(z.im, z.im))

\* f64 / Complex: a / (c + i d) = a (c - i d) / (c c + d d)
RDivC(a, z) ==
    Cx(ADiv(AMul(a, z.re), norm_sqr(z)),
       ADiv(AMul(ANeg(a), z.im), norm_sqr(z)))

\* f64 - Complex
RSubC(x, z) == Cx(ASub(x, z.re), ASub("zero", z.im))

\* Complex / Complex
CDiv(z, w) ==
    Cx(ADiv(AAdd(AMul(z.re, w.re), AMul(z.im, w.im)), norm_sqr(w)),
       ADiv(ASub(AMul(z.im, w.re), AMul(z.re, w.im)), norm_sqr(w)))

\* Complex / f64
CDivR(z, x) == Cx(ADiv(z.re, x), ADiv(z.im, x))

\* Complex::exp: from_polar(re.exp(), im)
CExp(z) == Cx(AMul(AExp(z.re), ACos(z.im)), AMul(AExp(z.re), ASin(z.im)))

\* Complex::norm
CNorm(z) == AHypot(z.re, z.im)

\* ------------------------------------------------ DataSet::integrate_freq
\* c = 2.0 * PI * neg_i * freq, with neg_i = -Complex::i() = (-0.0, -1.0)
Kernel(freq) == CScale(Cls(freq), CScale("nonzero", Cx("zero", "nonzero")))

\* a = (level2 - level1) / (time2 - time1)
Slope(p1, p2) ==
    ADiv(Cls(p2.water_level - p1.water_level), Cls(p2.time - p1.time))

\* b = level1 - a * time1
Intercept(p1, p2) ==
    ASub(Cls(p1.water_level), AMul(Slope(p1, p2), Cls(p1.time)))

\* int_f = |x| (a * x + b - a / c) / c * (c * x).exp()
int_f(p1, p2, c, x) ==
    LET a == Slope(p1, p2)
        b == Intercept(p1, p2)
    IN  CMul(CDiv(RSubC(AAdd(AMul(a, Cls(x)), b), RDivC(a, c)), c),
             CExp(CScale(Cls(x), c)))

\* The closure mapped over a window: int_f(time2) - int_f(time1)
Contribution(p1, p2, c) ==
    CSub(int_f(p1, p2, c, p2.time), int_f(p1, p2, c, p1.time))

\* .par_windows(2).map(..).sum(): the class of the sum does not depend on the
\* order of the additions; SumSpec below follows the order.
RECURSIVE SumWindows(_, _, _)
SumWindows(d, c, n) ==
    IF n = 0 THEN Cx("zero", "zero")
    ELSE CAdd(SumWindows(d, c, n - 1), Contribution(d[n], d[n + 1], c))

integrate_freq(d, freq) ==
    CDivR(SumWindows(d, Kernel(freq), Len(d) - 1), Cls(period_length(d)))

\* data.integrate_freq(current_freq).norm()
Amplitude(d, freq) == CNorm(integrate_freq(d, freq))

\* FtPoint { freq, amplitude }
FtPoint(f, a) == [freq |-> f, amplitude |-> a]

\* ------------------------------------------------------------ the inputs
\* A command line argument after the path: text that parses as an f64
\* (parses, with its value) or does not.
Arg(ok, v) == [parses |-> ok, val |-> v]

Junk == Arg(FALSE, 0)

\* The arguments after the program name: the path, then up to three numbers.
\* The values sit on both sides of 2^MantBits, where the spacing of the
\* floating point numbers goes from 1 to 2.
ArgChoices ==
    LET top    == Pow2(MantBits)
        starts == {Arg(TRUE, 0), Arg(TRUE, top - 2), Junk}
        ends   == {Arg(TRUE, 4), Arg(TRUE, top + 2)}
        steps  == {Arg(TRUE, 1), Arg(TRUE, 3), Arg(TRUE, 0), Arg(TRUE, -1)}
    IN  {<<>>, <<"path">>}
        \cup {<<"path", a>> : a \in starts}
        \cup {<<"path", a, b>> : a \in starts, b \in ends}
        \cup {<<"path", a, b, c>> : a \in starts, b \in ends, c \in steps}

Levels == {1, 2}

\* The rows a file may hold: three timestamps across the end of February of
\* a leap year, a day that does not exist, an hour that does not exist, and
\* a row that does not deserialize.
RowChoices ==
    {Row(TRUE, d[1], d[2], 7, v) :
        d \in {<<<<2020, 2, 29>>, <<23, 0>>>>,
               <<<<2020, 3, 1>>, <<0, 0>>>>,
               <<<<2020, 3, 1>>, <<1, 0>>>>},
        v \in Levels}
    \cup {Row(TRUE, <<2021, 2, 29>>, <<23, 0>>, 7, 1),
          Row(TRUE, <<2020, 3, 1>>, <<24, 0>>, 7, 1),
          Row(FALSE, <<0, 0, 0>>, <<0, 0>>, 0, 0)}

\* ------------------------------------------------------------- the state
VARIABLES
    pc,              \* where main is
    failure,         \* why main panicked, "none" while it has not
    args,            \* env::args_os() after the program name
    start_freq, end_freq, step,   \* main's parsed arguments
    input,           \* the rows the CSV reader has handed out so far
    first_datetime,  \* get_data's first_datetime
    data,            \* get_data's result, then main's data
    current_freq,    \* fourier's current_freq
    ft,              \* fourier's result
    output,          \* the lines printed to stdout
    contrib,         \* SumSpec: the values of the mapped windows
    jobs             \* SumSpec: the tasks of the parallel sum

mainVars == <<pc, failure, args, start_freq, end_freq, step, input,
              first_datetime, data, current_freq, ft, output>>

sumVars == <<contrib, jobs>>

vars == <<mainVars, sumVars>>

\* .nth(n).and_then(into_string).and_then(parse).unwrap_or(default); the
\* path is args[1], so the n-th argument of the code is args[n].
ArgOr(a, n, default) ==
    IF Len(a) >= n /\ a[n].parses THEN a[n].val ELSE default

Init ==
    /\ pc = "args"
    /\ failure = "none"
    /\ args \in ArgChoices
    /\ start_freq = 0
    /\ end_freq = 0
    /\ step = 0
    /\ input = <<>>
    /\ first_datetime = 0
    /\ data = <<>>
    /\ current_freq = 0
    /\ ft = <<>>
    /\ output = <<>>
    /\ contrib = <<>>
    /\ jobs = {}

\* Panic with the error noted and the run going on where it was.
PanicSkipped(why) ==
    /\ pc' = pc
    /\ failure' = why

\* A failed unwrap: the process panics and exits with a non-zero status.
Panic(why) ==
    /\ pc' = "panicked"
    /\ failure' = why

\* main, lines 152-168: the path and the three optional numbers.
ParseArgs ==
    /\ pc = "args"
    /\ IF Len(args) < 1
       THEN /\ Panic("NoPathArgument")
            /\ UNCHANGED <<start_freq, end_freq, step>>
       ELSE /\ start_freq' = ArgOr(args, 2, DefaultStartFreq)
            /\ end_freq' = ArgOr(args, 3, DefaultEndFreq)
            /\ step' = ArgOr(args, 4, DefaultStep)
            /\ pc' = "open"
            /\ UNCHANGED failure
    /\ UNCHANGED <<args, input, first_datetime, data, current_freq, ft, output, sumVars>>

\* get_data: csv::Reader::from_path(path).unwrap()
OpenFile ==
    /\ pc = "open"
    /\ \E readable \in BOOLEAN :
         IF readable
         THEN pc' = "first" /\ UNCHANGED failure
         ELSE Panic("OpenFailed")
    /\ UNCHANGED <<args, start_freq, end_freq, step, input, first_datetime,
                   data, current_freq, ft, output, sumVars>>

\* get_data: records_iter.next().unwrap() on a file with no record
FirstMissing ==
    /\ pc = "first"
    /\ Panic("NoRecords")
    /\ UNCHANGED <<args, start_freq, end_freq, step, input, first_datetime,
                   data, current_freq, ft, output, sumVars>>

\* get_data, lines 59-64: the first record
ReadFirst ==
    /\ pc = "first"
    /\ \E r \in RowChoices :
         /\ input' = Append(input, r)
         /\ IF ~r.wellformed
            THEN Panic("BadRecord") /\ UNCHANGED <<first_datetime, data>>
            ELSE IF ~ParseOk(r)
            THEN Panic("BadTimestamp") /\ UNCHANGED <<first_datetime, data>>
            ELSE /\ first_datetime' = datetime(r)
                 /\ data' = Append(data, DataPoint(0, r.verified))
                 /\ pc' = "loop"
                 /\ UNCHANGED failure
    /\ UNCHANGED <<args, start_freq, end_freq, step, current_freq, ft, output, sumVars>>

\* get_data, lines 66-73: one turn of the loop over the other records
ReadNext ==
    /\ pc = "loop"
    /\ Len(input) < MaxRecords
    /\ \E r \in RowChoices :
         /\ input' = Append(input, r)
         /\ IF ~r.wellformed
            THEN Panic("BadRecord") /\ UNCHANGED data
            ELSE IF ~ParseOk(r)
            THEN Panic("BadTimestamp") /\ UNCHANGED data
            ELSE /\ data' = Append(data, PointOf(r, first_datetime))
                 /\ pc' = "loop"
                 /\ UNCHANGED failure
    /\ UNCHANGED <<args, start_freq, end_freq, step, first_datetime,
                   current_freq, ft, output, sumVars>>

\* get_data returns at the end of the records; main calls fourier, which
\* sets result = vec![] and current_freq = start_freq.
EndOfRecords ==
    /\ pc = "loop"
    /\ pc' = "sweep"
    /\ current_freq' = start_freq
    /\ ft' = <<>>
    /\ UNCHANGED <<failure, args, start_freq, end_freq, step, input,
                   first_datetime, data, output, sumVars>>

\* fourier, lines 135-144: one turn of the while loop
SweepStep ==
    /\ pc = "sweep"
    /\ current_freq <= end_freq
    /\ Len(ft) < MaxPoints
    /\ ft' = Append(ft, FtPoint(current_freq, Amplitude(data, current_freq)))
    /\ current_freq' = FAdd(current_freq, step)
    /\ UNCHANGED <<pc, failure, args, start_freq, end_freq, step, input,
                   first_datetime, data, output, sumVars>>

\* fourier, lines 135 and 146: the loop condition fails and result is returned
SweepReturn ==
    /\ pc = "sweep"
    /\ ~(current_freq <= end_freq)
    /\ pc' = "print"
    /\ UNCHANGED <<failure, args, start_freq, end_freq, step, input,
                   first_datetime, data, current_freq, ft, output, sumVars>>

\* The line println! writes for a point.
Line(p) == <<FMul(p.freq, SecondsPerDay), p.amplitude>>

\* main, lines 174-176: one line per point
PrintPoint ==
    /\ pc = "print"
    /\ Len(output) < Len(ft)
    /\ output' = Append(output, Line(ft[Len(output) + 1]))
    /\ UNCHANGED <<pc, failure, args, start_freq, end_freq, step, input,
                   first_datetime, data, current_freq, ft, sumVars>>

\* main returns
Exit ==
    /\ pc = "print"
    /\ Len(output) = Len(ft)
    /\ pc' = "done"
    /\ UNCHANGED <<failure, args, start_freq, end_freq, step, input,
                   first_datetime, data, current_freq, ft, output, sumVars>>

Next ==
    \/ ParseArgs
    \/ OpenFile
    \/ FirstMissing
    \/ ReadFirst
    \/ ReadNext
    \/ EndOfRecords
    \/ SweepStep
    \/ SweepReturn
    \/ PrintPoint
    \/ Exit

Spec == Init /\ [][Next]_vars

\* ------------------------------------------------- the parallel sum
\* .par_windows(2).map(..).sum() on a slice of n points: rayon starts one
\* task for the windows 1..n-1; a task that has not started may be split at
\* the middle of its range into two tasks (whether it is depends on the
\* number of idle threads); a task that is not split folds its windows from
\* left to right into Complex::zero(); the sums of the two halves of a split
\* task are added when both are there.  Here the value of a mapped window
\* is a pair of floating point numbers <<re, im>>, any of ValueChoices.
ValueChoices == {<<r, i>> : r \in {1, Pow2(MantBits)}, i \in {0, 1}}

\* Complex + Complex on values
NAdd(z, w) == <<FAdd(z[1], w[1]), FAdd(z[2], w[2])>>

\* A task over the windows lo .. hi-1.
Job(lo, hi) == [lo |-> lo, hi |-> hi, state |-> "pending", sum |-> <<0, 0>>,
                seen |-> <<>>, leaves |-> 0]

\* LeafItems with the last window of the range left out.
LeafItemsShort(lo, hi) == [i \in 1..(hi - lo - 1) |-> lo + i - 1]

\* The windows a task folds, in order.
LeafItems(lo, hi) == [i \in 1..(hi - lo) |-> lo + i - 1]

\* Where a task is split: producer.split_at(len / 2).
MidPoint(lo, hi) == lo + (hi - lo) \div 2

\* fold(Complex::zero(), |acc, c| acc + c) over the windows in items.
RECURSIVE FoldSum(_, _, _)
FoldSum(c, items, n) ==
    IF n = 0 THEN <<0, 0>> ELSE NAdd(FoldSum(c, items, n - 1), c[items[n]])

SumInit ==
    /\ pc = "integrate"
    /\ failure = "none"
    /\ args = <<>>
    /\ start_freq = 0
    /\ end_freq = 0
    /\ step = 0
    /\ input = <<>>
    /\ first_datetime = 0
    /\ data = <<>>
    /\ current_freq = 0
    /\ ft = <<>>
    /\ output = <<>>
    /\ \E n \in 1..MaxWindows : contrib \in [1..n -> ValueChoices]
    /\ jobs = {Job(1, Len(contrib) + 1)}

\* A task that has not started is split in two.
SplitJob ==
    /\ \E j \in jobs :
         /\ j.state = "pending"
         /\ j.hi - j.lo >= 2
         /\ jobs' = (jobs \ {j})
                     \cup {[j EXCEPT !.state = "split"],
                           Job(j.lo, MidPoint(j.lo, j.hi)),
                           Job(MidPoint(j.lo, j.hi), j.hi)}
    /\ UNCHANGED <<mainVars, contrib>>

\* A task that was not split folds its windows.
FoldJob ==
    /\ \E j \in jobs :
         /\ j.state = "pending"
         /\ jobs' = (jobs \ {j})
                     \cup {[j EXCEPT !.state = "done",
                                     !.sum = FoldSum(contrib, LeafItems(j.lo, j.hi),
                                                      Len(LeafItems(j.lo, j.hi))),
                                     !.seen = LeafItems(j.lo, j.hi),
                                     !.leaves = 1]}
    /\ UNCHANGED <<mainVars, contrib>>

\* The sums of the two halves of a split task are added.
ReduceJob ==
    /\ \E j \in jobs, l \in jobs, r \in jobs :
         /\ j.state = "split"
         /\ l.state = "done" /\ l.lo = j.lo /\ l.hi = MidPoint(j.lo, j.hi)
         /\ r.state = "done" /\ r.lo = l.hi /\ r.hi = j.hi
         /\ jobs' = (jobs \ {j, l, r})
                     \cup {[j EXCEPT !.state = "done",
                                     !.sum = NAdd(l.sum, r.sum),
                                     !.seen = l.seen \o r.seen,
                                     !.leaves = l.leaves + r.leaves]}
    /\ UNCHANGED <<mainVars, contrib>>

SumNext ==
    \/ SplitJob
    \/ FoldJob
    \/ ReduceJob

SumSpec == SumInit /\ [][SumNext]_vars

\* The sum is there: the first task is done.
SumDone == \E j \in jobs : j.state = "done" /\ j.lo = 1 /\ j.hi = Len(contrib) + 1

\* The value of the sum.
SumResult == (CHOOSE j \in jobs : j.lo = 1 /\ j.hi = Len(contrib) + 1).sum

\* The windows that went into the sum, in the order of the additions.
SumSeen == (CHOOSE j \in jobs : j.lo = 1 /\ j.hi = Len(contrib) + 1).seen

\* The tasks that folded windows for the sum.
SumLeaves == (CHOOSE j \in jobs : j.lo = 1 /\ j.hi = Len(contrib) + 1).leaves

\* ================================================================ claims
\* get_data has returned its DataSet.
Returned == pc \in {"sweep", "print", "done"}

\* fourier has returned its points.
SweepReturned == pc \in {"print", "done"}

\* main has its three numbers.
ArgsParsed == pc # "args" /\ failure # "NoPathArgument"

StrictlyIncreasing(d) == \A i \in 1..(Len(d) - 1) : d[i].time < d[i + 1].time

\* A valid TimeSeries of the specification.
ValidSeries(d) == Len(d) >= 2 /\ StrictlyIncreasing(d)

HasZeroLengthSegment(d) == \E i \in 1..(Len(d) - 1) : d[i].time = d[i + 1].time

Freqs(points) == [i \in 1..Len(points) |-> points[i].freq]

\* start, start + step, start + 2 step, ... while <= end, in exact arithmetic.
ExpectedFreqs(start, end, st) ==
    [k \in 1..((end - start) \div st + 1) |-> start + (k - 1) * st]

\* C1: for step > 0 and start <= end the sweep returns exactly one point for
\* each value start + k*step (k = 0, 1, ...) that is <= end, in ascending order.
C1_SweepPoints ==
    (SweepReturned /\ step > 0 /\ start_freq <= end_freq)
        => Freqs(ft) = ExpectedFreqs(start_freq, end_freq, step)

\* C2: with step <= 0 or start > end the sweep fails before the integrator is
\* evaluated for any frequency: no point is produced and the sweep does not
\* return normally.
C2_InvalidRangeRejected ==
    (ArgsParsed /\ (step <= 0 \/ start_freq > end_freq))
        => (ft = <<>> /\ ~SweepReturned)

\* Twice the area under the piecewise-linear interpolant: the sum over the
\* adjacent pairs of (v1 + v2) * (t2 - t1).
RECURSIVE TrapezoidTwice(_, _)
TrapezoidTwice(d, n) ==
    IF n = 0 THEN 0
    ELSE TrapezoidTwice(d, n - 1)
         + (d[n].water_level + d[n + 1].water_level) * (d[n + 1].time - d[n].time)

\* The classes a floating point result equal to the rational num/den can have.
ClassesOf(num) == IF num = 0 THEN {"zero", "finite"} ELSE {"nonzero", "finite"}

\* C3: for a valid series the amplitude at frequency 0 is the time-weighted
\* mean of the interpolant, a finite number (1.5 for the levels 1, 2, 1 at
\* 0 s, 3600 s, 7200 s).
C3_ZeroFrequencyMean ==
    \A i \in 1..Len(ft) :
        (ft[i].freq = 0 /\ ValidSeries(data))
            => ft[i].amplitude \in ClassesOf(TrapezoidTwice(data, Len(data) - 1))

\* C4: when two adjacent samples have the same elapsed time the program
\* reports an error and produces no amplitude: no point is computed from such
\* a series, none of them NaN or infinite, and the run does not end normally.
C4_DegenerateSegmentRejected ==
    HasZeroLengthSegment(data)
        => (ft = <<>> /\ pc # "done"
            /\ \A i \in 1..Len(ft) : IsFinite(ft[i].amplitude))

\* C5: get_data on n samples yields n DataPoints in input order; the first has
\* time 0, the i-th the seconds between the i-th and the first timestamp, and
\* every water_level is the sample's verified value.
C5_TimeSeriesConstruction ==
    Returned =>
        /\ Len(data) = Len(input)
        /\ data[1].time = 0
        /\ \A i \in 1..Len(data) :
             /\ data[i].time = datetime(input[i]) - datetime(input[1])
             /\ data[i].water_level = input[i].verified

\* C5 witness: three samples one hour apart across the leap day, whose
\* predicted value differs from the verified one.
C5_Witness ==
    /\ Returned
    /\ Len(input) = 3
    /\ input[1].date = <<2020, 2, 29>>
    /\ input[1].predicted # input[1].verified
    /\ data = <<DataPoint(0, 1), DataPoint(3600, 2), DataPoint(7200, 1)>>

\* C6: the series handed to the sweep has strictly increasing times, whatever
\* the order of the timestamps in the input.
C6_StrictlyIncreasingTimes == Returned => StrictlyIncreasing(data)

\* A row get_data cannot take: it does not deserialize or its timestamp does
\* not parse.
BadRow(r) == ~r.wellformed \/ ~ParseOk(r)

StepDefaulted == ~(Len(args) >= 4 /\ args[4].parses)

\* C8: when the step is omitted, 30000 default steps span exactly from
\* start_freq to the default end_freq.
C8_DefaultStepSpansRange ==
    (ArgsParsed /\ StepDefaulted)
        => FMul(step, DefaultPointCount) = RoundF(DefaultEndFreq - start_freq)

\* C9: for step > 0 and start <= end the loop of the sweep terminates.  The
\* floating point numbers up to end_freq are finitely many, so the loop ends
\* exactly if every turn leaves current_freq larger than it was.
C9_SweepTerminates ==
    [][(pc = "sweep" /\ step > 0 /\ start_freq <= end_freq /\ ft' # ft)
          => current_freq' > current_freq]_vars

\* The sum of all windows, the additions made from left to right by one task.
SequentialSum == FoldSum(contrib, LeafItems(1, Len(contrib) + 1), Len(contrib))

\* The exact sums of the components of the windows lo .. hi.
RECURSIVE ExactSum(_, _, _, _)
ExactSum(c, k, lo, hi) ==
    IF hi < lo THEN 0 ELSE ExactSum(c, k, lo, hi - 1) + c[hi][k]

\* No addition of the sum can round: the exact sum of every run of adjacent
\* windows is a floating point number.
NoRounding ==
    \A lo \in 1..Len(contrib), hi \in 1..Len(contrib), k \in 1..2 :
        Representable(ExactSum(contrib, k, lo, hi))

\* C10, as claimed: the sum takes in each of the n-1 windows once, and its
\* value is the same for every order in which the tasks add them up.
C10_SumOrderIndependent ==
    SumDone => (SumSeen = LeafItems(1, Len(contrib) + 1) /\ SumResult = SequentialSum)

\* C10, amended: the sum takes in each of the n-1 windows exactly once, in
\* the order of the windows, however the tasks were split; its value is the
\* same for every split when no addition rounds.
C10_SumCoversEveryWindow ==
    SumDone =>
        /\ SumSeen = LeafItems(1, Len(contrib) + 1)
        /\ NoRounding =>
             SumResult = <<ExactSum(contrib, 1, 1, Len(contrib)),
                           ExactSum(contrib, 2, 1, Len(contrib))>>

\* C10 witness: three windows summed by two tasks.
C10_Witness ==
    /\ SumDone
    /\ Len(contrib) = 3
    /\ SumLeaves = 2
    /\ SumSeen = <<1, 2, 3>>
    /\ NoRounding

====
